---- MODULE Spec2Model ----
(***************************************************************************)
(* Path planner of grid-car-challenge (backend/app/algo.py).               *)
(*                                                                         *)
(* Spec     : solve_grid_to_moves run on a bounded grid, one action per    *)
(*            pipeline stage (key points, partner map, pairwise paths,     *)
(*            reachability check, Held-Karp, move assembly).               *)
(* SpecTSP  : _held_karp_tsp run on a bounded distance matrix.             *)
(***************************************************************************)
EXTENDS Integers, Sequences, FiniteSets, TLC

VARIABLES grid, pc, start, flags, teleports, partner, points, dist,
          move_paths, dp, tsp, moves, error, tspRan

vars == <<grid, pc, start, flags, teleports, partner, points, dist,
          move_paths, dp, tsp, moves, error, tspRan>>

----------------------------------------------------------------------------
(* Bounds of the model *)

\* a grid has at most MaxCells cells (rows * cols)
MaxCells == 5
\* a grid has at most MaxRows rows
MaxRows == 2
\* SpecTSP: a distance matrix has at most MaxN rows
MaxN == 4
\* SpecTSP: an off-diagonal distance is 1 or MaxDist
MaxDist == 2

(* Program constants *)
INF == 1000000000

\* the teleport labels of the model's grids, in naming order
LabelNames == <<"T1", "T2">>
TeleTokens == {LabelNames[i] : i \in 1..Len(LabelNames)}
Tokens == {"0", "1", "S", "F"} \cup TeleTokens

\* Python's None, and the unset value of a variable not yet assigned
None == <<>>

----------------------------------------------------------------------------
(* Grid access.  Positions are 0-based <<row, col>> pairs as in the code;  *)
(* the grid is a sequence of rows.                                         *)

NumRows(g) == Len(g)
NumCols(g) == Len(g[1])
Cell(g, p) == g[p[1] + 1][p[2] + 1]

\* the i-th cell (0-based) of the row-major scan
ScanPos(g, i) == <<i \div NumCols(g), i % NumCols(g)>>
AllPos(g) == {ScanPos(g, i) : i \in 0..(NumRows(g) * NumCols(g) - 1)}

_is_drivable(cell) == cell # "0"

\* cell.startswith("T")
IsTeleportToken(cell) == cell \in TeleTokens

_in_bounds(r, c, g) == 0 <= r /\ r < NumRows(g) /\ 0 <= c /\ c < NumCols(g)

----------------------------------------------------------------------------
(* Ordered dictionaries (Python dict): a sequence of <<key, value>> pairs  *)
(* in insertion order; assigning an existing key keeps its place.          *)

DictKeys(d) == {d[i][1] : i \in 1..Len(d)}
DictHas(d, k) == \E i \in 1..Len(d) : d[i][1] = k
DictIndex(d, k) == CHOOSE i \in 1..Len(d) : d[i][1] = k
DictGet(d, k) == d[DictIndex(d, k)][2]
DictSet(d, k, v) ==
    IF DictHas(d, k)
    THEN [d EXCEPT ![DictIndex(d, k)] = <<k, v>>]
    ELSE Append(d, <<k, v>>)

----------------------------------------------------------------------------
(* _find_key_points *)

\* one iteration of the scan loop on cell number i
ScanCell(g, i, acc) ==
    LET p == ScanPos(g, i)
        cell == Cell(g, p)
    IN IF cell = "S" THEN [acc EXCEPT !.start = p]
       ELSE IF cell = "F" THEN [acc EXCEPT !.flags = Append(@, p)]
       ELSE IF IsTeleportToken(cell)
            THEN [acc EXCEPT !.teleports =
                      DictSet(@, cell,
                              IF DictHas(@, cell)
                              THEN Append(DictGet(@, cell), p)
                              ELSE <<p>>)]
       ELSE acc

RECURSIVE ScanFrom(_, _, _)
ScanFrom(g, i, acc) ==
    IF i >= NumRows(g) * NumCols(g) THEN acc
    ELSE ScanFrom(g, i + 1, ScanCell(g, i, acc))

\* the scan's result; start = None makes the function raise
_find_key_points(g) ==
    ScanFrom(g, 0, [start |-> None, flags |-> <<>>, teleports |-> <<>>])

----------------------------------------------------------------------------
(* _teleport_partner_map *)

\* variant of Mispaired that lets a label with more than two cells pass
Mispaired_TooFew(pts) == Len(pts) < 2

\* len(pts) != 2
Mispaired(pts) == Len(pts) # 2

\* the dict after the loop ran over entries i..: [ok, label, partner],
\* ok = FALSE when entry `label` made the function raise
RECURSIVE PartnerFrom(_, _, _)
PartnerFrom(tel, i, acc) ==
    IF i > Len(tel) THEN [ok |-> TRUE, label |-> "", partner |-> acc]
    ELSE LET label == tel[i][1]
             pts == tel[i][2]
         IN IF Mispaired(pts)
            THEN [ok |-> FALSE, label |-> label, partner |-> acc]
            ELSE PartnerFrom(tel, i + 1,
                             DictSet(DictSet(acc, pts[1], pts[2]), pts[2], pts[1]))

_teleport_partner_map(tel) == PartnerFrom(tel, 1, <<>>)

----------------------------------------------------------------------------
(* _zero_one_bfs *)

Dirs == << <<-1, 0, "U">>, <<1, 0, "D">>, <<0, -1, "L">>, <<0, 1, "R">> >>

\* variant of Land without the relocation
Land_NoTeleport(g, prt, v) == v

\* the position a traveler entering cell v stands on: the partner of a
\* teleport cell, v itself otherwise
Land(g, prt, v) ==
    IF IsTeleportToken(Cell(g, v)) /\ DictHas(prt, v)
    THEN DictGet(prt, v)
    ELSE v

\* the strict-improvement test of the relaxation
Improves(du, dv) == du + 1 < dv

\* one iteration of the direction loop for the popped cell u;
\* st = [dist, parent, q]
Relax(g, prt, st, u, d) ==
    LET vr == u[1] + Dirs[d][1]
        vc == u[2] + Dirs[d][2]
        mv == Dirs[d][3]
    IN IF ~_in_bounds(vr, vc, g) THEN st
       ELSE IF ~_is_drivable(Cell(g, <<vr, vc>>)) THEN st
       ELSE LET v == Land(g, prt, <<vr, vc>>)
            IN IF Improves(st.dist[u], st.dist[v])
               THEN [dist   |-> [st.dist EXCEPT ![v] = st.dist[u] + 1],
                     parent |-> (v :> <<u, mv>>) @@ st.parent,
                     q      |-> Append(st.q, v)]
               ELSE st

RECURSIVE BfsLoop(_, _, _)
BfsLoop(g, prt, st) ==
    IF st.q = <<>> THEN st
    ELSE LET u == Head(st.q)
             s0 == [st EXCEPT !.q = Tail(st.q)]
             s1 == Relax(g, prt, s0, u, 1)
             s2 == Relax(g, prt, s1, u, 2)
             s3 == Relax(g, prt, s2, u, 3)
             s4 == Relax(g, prt, s3, u, 4)
         IN BfsLoop(g, prt, s4)

\* [dist, parent] of the traversal from src (q is empty at the end)
_zero_one_bfs(g, src, prt) ==
    LET drivable == {p \in AllPos(g) : _is_drivable(Cell(g, p))}
        dist0 == [p \in drivable \cup {src} |-> IF p = src THEN 0 ELSE INF]
    IN BfsLoop(g, prt, [dist |-> dist0, parent |-> <<>>, q |-> <<src>>])

----------------------------------------------------------------------------
(* _reconstruct_moves *)

\* the loop from cur with the reversed moves collected so far in rev;
\* the result is already in forward order
RECURSIVE ReconstructFrom(_, _, _, _)
ReconstructFrom(parent, src, cur, rev) ==
    IF cur = src THEN rev
    ELSE IF cur \notin DOMAIN parent THEN <<>>
    ELSE ReconstructFrom(parent, src, parent[cur][1], <<parent[cur][2]>> \o rev)

_reconstruct_moves(parent, src, dst) == ReconstructFrom(parent, src, dst, <<>>)

----------------------------------------------------------------------------
(* _pairwise_shortest_paths: key points are indexed from 0 as in the code  *)

PointAt(pts, i) == pts[i + 1]

\* the body of the inner loop for source i with traversal bfs and
\* destination j; acc = [dist_matrix, move_paths]
PairEntry(pts, bfs, acc, i, j) ==
    LET src == PointAt(pts, i)
        dst == PointAt(pts, j)
    IN IF i = j
       THEN [dist_matrix |-> [acc.dist_matrix EXCEPT ![i][j] = 0],
             move_paths  |-> (<<i, j>> :> <<>>) @@ acc.move_paths]
       ELSE IF dst \in DOMAIN bfs.dist /\ bfs.dist[dst] < INF
       THEN [dist_matrix |-> [acc.dist_matrix EXCEPT ![i][j] = bfs.dist[dst]],
             move_paths  |-> (<<i, j>> :> _reconstruct_moves(bfs.parent, src, dst))
                             @@ acc.move_paths]
       ELSE [dist_matrix |-> [acc.dist_matrix EXCEPT ![i][j] = INF],
             move_paths  |-> (<<i, j>> :> <<>>) @@ acc.move_paths]

\* the inner loop from destination j on (the entry of an iteration is
\* evaluated before the next iteration is entered)
RECURSIVE DstLoop(_, _, _, _, _)
DstLoop(pts, bfs, acc, i, j) ==
    IF j >= Len(pts) THEN acc
    ELSE LET next == PairEntry(pts, bfs, acc, i, j)
         IN IF <<i, j>> \in DOMAIN next.move_paths
            THEN DstLoop(pts, bfs, next, i, j + 1)
            ELSE next

\* the outer loop from source i on
RECURSIVE SrcLoop(_, _, _, _, _)
SrcLoop(g, pts, prt, acc, i) ==
    IF i >= Len(pts) THEN acc
    ELSE LET next == DstLoop(pts, _zero_one_bfs(g, PointAt(pts, i), prt), acc, i, 0)
         IN IF <<i, i>> \in DOMAIN next.move_paths
            THEN SrcLoop(g, pts, prt, next, i + 1)
            ELSE next

\* [dist_matrix, move_paths]
_pairwise_shortest_paths(g, pts, prt) ==
    LET n == Len(pts)
        row == [j \in 0..(n - 1) |-> INF]
    IN SrcLoop(g, pts, prt,
               [dist_matrix |-> [i \in 0..(n - 1) |-> row], move_paths |-> <<>>],
               0)

----------------------------------------------------------------------------
(* _held_karp_tsp.  A distance matrix is a function on 0..n-1 of functions *)
(* on 0..n-1.  dp is a function on the masks 0..2^n-1 of ordered dicts     *)
(* index -> <<cost, prev>>.                                                *)

MatN(d) == Cardinality(DOMAIN d)

\* mask & (1 << k) # 0
HasBit(mask, k) == (mask \div (2 ^ k)) % 2 = 1

\* variant of Better that prefers the larger index on a tie
Better_LargerIndex(cand, j, existing) ==
    \/ cand < existing[1]
    \/ (cand = existing[1] /\ j > existing[2])

\* the test that lets a candidate (cand, j) replace the stored entry
Better(cand, j, existing) ==
    \/ cand < existing[1]
    \/ (cand = existing[1] /\ j < existing[2])

\* variant of Transition whose candidate forgets the cost of the state
Transition_NoAccumulate(d, dpv, mask, j, cost_j, k) ==
    IF HasBit(mask, k) THEN dpv
    ELSE LET new_mask == mask + 2 ^ k
             cand == d[j][k]
         IN IF ~DictHas(dpv[new_mask], k)
               \/ Better(cand, j, DictGet(dpv[new_mask], k))
            THEN [dpv EXCEPT ![new_mask] = DictSet(@, k, <<cand, j>>)]
            ELSE dpv

\* the body of the k loop for state (mask, j) of cost cost_j
Transition(d, dpv, mask, j, cost_j, k) ==
    IF HasBit(mask, k) THEN dpv
    ELSE LET new_mask == mask + 2 ^ k
             cand == cost_j + d[j][k]
         IN IF ~DictHas(dpv[new_mask], k)
               \/ Better(cand, j, DictGet(dpv[new_mask], k))
            THEN [dpv EXCEPT ![new_mask] = DictSet(@, k, <<cand, j>>)]
            ELSE dpv

\* the k loop for state (mask, j): f[k] is dp after k iterations (the
\* table of an iteration is evaluated before the next iteration is entered)
KLoop(d, dpv, mask, j, cost_j) ==
    LET n == MatN(d)
        f[k \in 0..n] ==
            IF k = 0 THEN dpv
            ELSE LET prev == f[k - 1]
                 IN IF DOMAIN prev = DOMAIN dpv
                    THEN Transition(d, prev, mask, j, cost_j, k - 1)
                    ELSE prev
    IN f[n]

\* the j loop over items, the snapshot list(dp[mask].items()): f[i] is dp
\* after i iterations (the table of an iteration is evaluated before the
\* next iteration is entered)
JLoop(d, dpv, mask, items) ==
    LET f[i \in 0..Len(items)] ==
            IF i = 0 THEN dpv
            ELSE LET prev == f[i - 1]
                 IN IF DOMAIN prev = DOMAIN dpv
                    THEN KLoop(d, prev, mask, items[i][1], items[i][2][1])
                    ELSE prev
    IN f[Len(items)]

\* the body of the mask loop
MaskStep(d, dpv, mask) ==
    IF ~HasBit(mask, 0) THEN dpv
    ELSE JLoop(d, dpv, mask, dpv[mask])

\* the iterations lo..hi-1 of the mask loop, in order, applied to dpv.
\* The range is split in halves and the first half is evaluated before the
\* second is entered, which keeps TLC's evaluation of the loop shallow.
RECURSIVE MaskLoop(_, _, _, _)
MaskLoop(d, dpv, lo, hi) ==
    IF hi <= lo THEN dpv
    ELSE IF hi = lo + 1 THEN MaskStep(d, dpv, lo)
    ELSE LET mid == (lo + hi) \div 2
             half == MaskLoop(d, dpv, lo, mid)
         IN IF DOMAIN half = DOMAIN dpv THEN MaskLoop(d, half, mid, hi) ELSE half

\* dp after the subset loop
DPTable(d) ==
    LET ALL == 2 ^ MatN(d)
    IN MaskLoop(d, [m \in 0..(ALL - 1) |->
                       IF m = 1 THEN << <<0, <<0, -1>> >> >> ELSE <<>>],
                0, ALL)

\* variant of EndStep that takes every item, whatever its cost
EndStep_LastItem(acc, j, cost_j) ==
    IF j = 0 THEN acc
    ELSE [best_cost |-> cost_j, end_idx |-> j]

\* variant of EndStep that prefers the larger index on a tie
EndStep_LargestEnd(acc, j, cost_j) ==
    IF j = 0 THEN acc
    ELSE IF cost_j < acc.best_cost \/ (cost_j = acc.best_cost /\ j > acc.end_idx)
    THEN [best_cost |-> cost_j, end_idx |-> j]
    ELSE acc

\* variant of EndStep without the skip of index 0
EndStep_NoSkip(acc, j, cost_j) ==
    IF cost_j < acc.best_cost \/ (cost_j = acc.best_cost /\ j < acc.end_idx)
    THEN [best_cost |-> cost_j, end_idx |-> j]
    ELSE acc

\* the body of the end-state loop: acc = [best_cost, end_idx]
EndStep(acc, j, cost_j) ==
    IF j = 0 THEN acc
    ELSE IF cost_j < acc.best_cost \/ (cost_j = acc.best_cost /\ j < acc.end_idx)
    THEN [best_cost |-> cost_j, end_idx |-> j]
    ELSE acc

RECURSIVE EndLoop(_, _, _)
EndLoop(items, i, acc) ==
    IF i > Len(items) THEN acc
    ELSE EndLoop(items, i + 1, EndStep(acc, items[i][1], items[i][2][1]))

\* variant of EndState whose best cost starts at 0
EndState_ZeroBest(d, dpv) ==
    EndLoop(dpv[2 ^ MatN(d) - 1], 1, [best_cost |-> 0, end_idx |-> MatN(d)])

\* [best_cost, end_idx] after the loop over dp[full_mask]
EndState(d, dpv) ==
    EndLoop(dpv[2 ^ MatN(d) - 1], 1, [best_cost |-> INF, end_idx |-> MatN(d)])

\* the reconstruction loop from state (mask, j); the result is in forward order
RECURSIVE OrderFrom(_, _, _, _)
OrderFrom(dpv, mask, j, rev) ==
    IF j = -1 THEN rev
    ELSE OrderFrom(dpv, mask - 2 ^ j, DictGet(dpv[mask], j)[2], <<j>> \o rev)

\* the function from the end-state loop on, dpv the table of the subset
\* loop: [ok, cost, order]; ok = FALSE when the function raises
TourFrom(d, dpv) ==
    LET fin == EndState(d, dpv)
    IN IF fin.end_idx = MatN(d)
       THEN [ok |-> FALSE, cost |-> fin.best_cost, order |-> <<>>]
       ELSE [ok |-> TRUE, cost |-> fin.best_cost,
             order |-> OrderFrom(dpv, 2 ^ MatN(d) - 1, fin.end_idx, <<>>)]

_held_karp_tsp(d) == TourFrom(d, DPTable(d))

----------------------------------------------------------------------------
(* solve_grid_to_moves: the reachability check and the move assembly *)

\* variant of Unreachable that lets the sentinel itself pass
Unreachable_Strict(d0i) == d0i > INF

\* dist[0][i] >= 10 ** 9
Unreachable(d0i) == d0i >= INF

SomeFlagUnreachable(d, pts) == \E i \in 1..(Len(pts) - 1) : Unreachable(d[0][i])

\* variant of MoveName with left and right exchanged
MoveName_Swapped(mv) ==
    IF mv = "T" THEN <<>>
    ELSE IF mv = "U" THEN <<"up">>
    ELSE IF mv = "D" THEN <<"down">>
    ELSE IF mv = "L" THEN <<"right">>
    ELSE IF mv = "R" THEN <<"left">>
    ELSE <<>>

\* the outward name of a direction code; <<>> for a code that is skipped
MoveName(mv) ==
    IF mv = "T" THEN <<>>
    ELSE IF mv = "U" THEN <<"up">>
    ELSE IF mv = "D" THEN <<"down">>
    ELSE IF mv = "L" THEN <<"left">>
    ELSE IF mv = "R" THEN <<"right">>
    ELSE <<>>

RECURSIVE SegmentMoves(_, _)
SegmentMoves(seg, i) ==
    IF i > Len(seg) THEN <<>>
    ELSE MoveName(seg[i]) \o SegmentMoves(seg, i + 1)

\* the concatenation over zip(order, order[1:]) from pair number i on
RECURSIVE Assemble(_, _, _)
Assemble(order, paths, i) ==
    IF i >= Len(order) THEN <<>>
    ELSE SegmentMoves(paths[<<order[i], order[i + 1]>>], 1)
         \o Assemble(order, paths, i + 1)

----------------------------------------------------------------------------
(* Inputs *)

\* labels are named in the order the row-major scan meets them (grids
\* that differ only in the names of their labels behave alike)
LabelsInOrder(g) ==
    \A k \in 2..Len(LabelNames) :
        \A i \in 0..(NumRows(g) * NumCols(g) - 1) :
            Cell(g, ScanPos(g, i)) = LabelNames[k] =>
                {h \in 0..(i - 1) : Cell(g, ScanPos(g, h)) = LabelNames[k - 1]} # {}

\* the shapes rows x cols of a grid
Shapes ==
    {rc \in (1..MaxRows) \X (1..MaxCells) : rc[1] * rc[2] <= MaxCells}

\* the symmetric n x n matrix with a zero diagonal whose entry (i, j),
\* i < j, is f[<<i, j>>]
SymMatrix(n, f) ==
    [i \in 0..(n - 1) |-> [j \in 0..(n - 1) |->
        IF i = j THEN 0 ELSE IF i < j THEN f[<<i, j>>] ELSE f[<<j, i>>]]]

UpperPairs(n) == {ij \in (0..(n - 1)) \X (0..(n - 1)) : ij[1] < ij[2]}

\* the distances of the matrices of SpecTSP
Weights == {1, MaxDist}

NoError == [kind |-> "", label |-> ""]
NoTsp == [ok |-> FALSE, cost |-> 0, order |-> <<>>]

----------------------------------------------------------------------------
(* solve_grid_to_moves, stage by stage *)

Init ==
    /\ \E rc \in Shapes : grid \in [1..rc[1] -> [1..rc[2] -> Tokens]]
    /\ LabelsInOrder(grid)
    /\ pc = "start"
    /\ start = None
    /\ flags = <<>>
    /\ teleports = <<>>
    /\ partner = <<>>
    /\ points = <<>>
    /\ dist = <<>>
    /\ move_paths = <<>>
    /\ dp = <<>>
    /\ tsp = NoTsp
    /\ moves = <<>>
    /\ error = NoError
    /\ tspRan = FALSE

Raise(kind, label) ==
    /\ pc' = "error"
    /\ error' = [kind |-> kind, label |-> label]

\* line 180, the function returns
FindKeyPoints ==
    /\ pc = "start"
    /\ LET kp == _find_key_points(grid)
       IN /\ kp.start # None
          /\ start' = kp.start
          /\ flags' = kp.flags
          /\ teleports' = kp.teleports
    /\ pc' = "keypoints"
    /\ UNCHANGED <<grid, partner, points, dist, move_paths, dp, tsp, moves,
                   error, tspRan>>

\* line 180, the function raises "Grid missing start 'S'"
FindKeyPointsRaise ==
    /\ pc = "start"
    /\ _find_key_points(grid).start = None
    /\ Raise("MissingStart", "")
    /\ UNCHANGED <<grid, start, flags, teleports, partner, points, dist,
                   move_paths, dp, tsp, moves, tspRan>>

\* lines 181-182
PartnerMap ==
    /\ pc = "keypoints"
    /\ LET pm == _teleport_partner_map(teleports)
       IN /\ pm.ok
          /\ partner' = pm.partner
    /\ points' = <<start>> \o flags
    /\ pc' = "partner"
    /\ UNCHANGED <<grid, start, flags, teleports, dist, move_paths, dp, tsp,
                   moves, error, tspRan>>

\* line 181, the function raises "Teleport <label> must appear exactly twice"
PartnerMapRaise ==
    /\ pc = "keypoints"
    /\ LET pm == _teleport_partner_map(teleports)
       IN /\ ~pm.ok
          /\ Raise("MalformedTeleport", pm.label)
    /\ UNCHANGED <<grid, start, flags, teleports, partner, points, dist,
                   move_paths, dp, tsp, moves, tspRan>>

\* line 184
PairwisePaths ==
    /\ pc = "partner"
    /\ LET pw == _pairwise_shortest_paths(grid, points, partner)
       IN /\ dist' = pw.dist_matrix
          /\ move_paths' = pw.move_paths
    /\ pc' = "paths"
    /\ UNCHANGED <<grid, start, flags, teleports, partner, points, dp, tsp,
                   moves, error, tspRan>>

\* lines 186-188, the loop ends without raising
CheckReachable ==
    /\ pc = "paths"
    /\ ~SomeFlagUnreachable(dist, points)
    /\ pc' = "checked"
    /\ UNCHANGED <<grid, start, flags, teleports, partner, points, dist,
                   move_paths, dp, tsp, moves, error, tspRan>>

\* line 188
CheckReachableRaise ==
    /\ pc = "paths"
    /\ SomeFlagUnreachable(dist, points)
    /\ Raise("UnreachableFlag", "")
    /\ UNCHANGED <<grid, start, flags, teleports, partner, points, dist,
                   move_paths, dp, tsp, moves, tspRan>>

\* line 190: the optimizer returns an order, or raises "No feasible tour
\* that visits all flags"
HeldKarp ==
    /\ pc = "checked"
    /\ LET dpv == DPTable(dist)
           r == TourFrom(dist, dpv)
       IN /\ dp' = dpv
          /\ IF r.ok
             THEN /\ tsp' = r
                  /\ pc' = "ordered"
                  /\ error' = error
             ELSE /\ tsp' = tsp
                  /\ Raise("Infeasible", "")
    /\ tspRan' = TRUE
    /\ UNCHANGED <<grid, start, flags, teleports, partner, points, dist,
                   move_paths, moves>>

\* lines 192-206
AssembleMoves ==
    /\ pc = "ordered"
    /\ moves' = Assemble(tsp.order, move_paths, 1)
    /\ pc' = "done"
    /\ UNCHANGED <<grid, start, flags, teleports, partner, points, dist,
                   move_paths, dp, tsp, error, tspRan>>

Next ==
    \/ FindKeyPoints
    \/ FindKeyPointsRaise
    \/ PartnerMap
    \/ PartnerMapRaise
    \/ PairwisePaths
    \/ CheckReachable
    \/ CheckReachableRaise
    \/ HeldKarp
    \/ AssembleMoves

Spec == Init /\ [][Next]_vars

----------------------------------------------------------------------------
(* _held_karp_tsp on its own: the matrix is the input *)

InitTSP ==
    /\ \E n \in 1..MaxN : \E f \in [UpperPairs(n) -> Weights] :
           dist = SymMatrix(n, f)
    /\ pc = "checked"
    /\ grid = <<>>
    /\ start = None
    /\ flags = <<>>
    /\ teleports = <<>>
    /\ partner = <<>>
    /\ points = <<>>
    /\ move_paths = <<>>
    /\ dp = <<>>
    /\ tsp = NoTsp
    /\ moves = <<>>
    /\ error = NoError
    /\ tspRan = FALSE

NextTSP == HeldKarp

SpecTSP == InitTSP /\ [][NextTSP]_vars

----------------------------------------------------------------------------
(* Reference semantics of the track, used to state the properties: what a  *)
(* move does, which cells can be reached, how long a walk must be.         *)

CountOf(g, tok) == Cardinality({p \in AllPos(g) : Cell(g, p) = tok})

FlagCells(g) == {p \in AllPos(g) : Cell(g, p) = "F"}

HasStart(g) == CountOf(g, "S") >= 1

\* every teleport label of the grid marks exactly two cells
WellPaired(g) == \A t \in TeleTokens : CountOf(g, t) \in {0, 2}

StructValid(g) ==
    /\ CountOf(g, "S") = 1
    /\ CountOf(g, "F") >= 1
    /\ WellPaired(g)

\* the start cell; of several "S" cells the last of the row-major scan
RefStart(g) ==
    LET n == NumRows(g) * NumCols(g)
        last == CHOOSE i \in 0..(n - 1) :
                    /\ Cell(g, ScanPos(g, i)) = "S"
                    /\ \A k \in (i + 1)..(n - 1) : Cell(g, ScanPos(g, k)) # "S"
    IN ScanPos(g, last)

\* the other cell carrying the label of teleport cell p
RefPartner(g, p) ==
    CHOOSE q \in AllPos(g) : q # p /\ Cell(g, q) = Cell(g, p)

Deltas == {<<-1, 0>>, <<1, 0>>, <<0, -1>>, <<0, 1>>}

DeltaOf(mv) ==
    CASE mv \in {"U", "up"} -> <<-1, 0>>
      [] mv \in {"D", "down"} -> <<1, 0>>
      [] mv \in {"L", "left"} -> <<0, -1>>
      [] mv \in {"R", "right"} -> <<0, 1>>

\* the cell a move by delta from p enters
Entered(p, delta) == <<p[1] + delta[1], p[2] + delta[2]>>

\* a move may enter cell v: in bounds and not blocked
CanEnter(g, v) == v \in AllPos(g) /\ Cell(g, v) # "0"

\* where the traveler stands after entering v
StandsAfter(g, v) == IF Cell(g, v) \in TeleTokens THEN RefPartner(g, v) ELSE v

\* the positions one move away from p
RefSucc(g, p) ==
    {StandsAfter(g, Entered(p, d)) : d \in {d \in Deltas : CanEnter(g, Entered(p, d))}}

\* the same on a track whose teleports are ignored
PlainSucc(g, p) ==
    {Entered(p, d) : d \in {d \in Deltas : CanEnter(g, Entered(p, d))}}

\* the least number of moves from a position of frontier to b, counted
\* from k; INF when there is none
RECURSIVE RefDistFrom(_, _, _, _, _)
RefDistFrom(g, seen, frontier, b, k) ==
    IF b \in frontier THEN k
    ELSE IF frontier = {} THEN INF
    ELSE RefDistFrom(g, seen \cup frontier,
                     (UNION {RefSucc(g, p) : p \in frontier}) \ (seen \cup frontier),
                     b, k + 1)

RefDist(g, a, b) == RefDistFrom(g, {}, {a}, b, 0)

RECURSIVE PlainDistFrom(_, _, _, _, _)
PlainDistFrom(g, seen, frontier, b, k) ==
    IF b \in frontier THEN k
    ELSE IF frontier = {} THEN INF
    ELSE PlainDistFrom(g, seen \cup frontier,
                       (UNION {PlainSucc(g, p) : p \in frontier}) \ (seen \cup frontier),
                       b, k + 1)

PlainDist(g, a, b) == PlainDistFrom(g, {}, {a}, b, 0)

\* walks as states <<position, flag cells stood on so far>>
CoverSucc(g, st) ==
    {<<q, st[2] \cup ({q} \cap FlagCells(g))>> : q \in RefSucc(g, st[1])}

\* the least number of moves of a walk from the start that stands on every
\* flag cell; INF when there is none
RECURSIVE CoverLenFrom(_, _, _, _)
CoverLenFrom(g, seen, frontier, k) ==
    IF \E st \in frontier : st[2] = FlagCells(g) THEN k
    ELSE IF frontier = {} THEN INF
    ELSE CoverLenFrom(g, seen \cup frontier,
                      (UNION {CoverSucc(g, st) : st \in frontier}) \ (seen \cup frontier),
                      k + 1)

CoverLen(g) ==
    CoverLenFrom(g, {}, {<<RefStart(g), {RefStart(g)} \cap FlagCells(g)>>}, 0)

\* the walk of moves ms[i..] from p: [ok, pos, stood]; ok = FALSE when a
\* move enters a cell out of bounds or blocked
RECURSIVE Walk(_, _, _, _, _)
Walk(g, p, ms, i, stood) ==
    IF i > Len(ms) THEN [ok |-> TRUE, pos |-> p, stood |-> stood]
    ELSE LET v == Entered(p, DeltaOf(ms[i]))
         IN IF ~CanEnter(g, v) THEN [ok |-> FALSE, pos |-> p, stood |-> stood]
            ELSE Walk(g, StandsAfter(g, v), ms, i + 1,
                      stood \cup {StandsAfter(g, v)})

Simulate(g, p, ms) == Walk(g, p, ms, 1, {p})

\* the pairwise matrix is set
DistReady ==
    \/ pc \in {"paths", "checked", "ordered", "done"}
    \/ pc = "error" /\ error.kind \in {"UnreachableFlag", "Infeasible"}

----------------------------------------------------------------------------
(* Properties of solve_grid_to_moves (Spec) *)

\* C1: on a structurally valid grid the returned move list is a shortest
\* one: its length is the least number of moves of any walk from the start
\* that stands on every flag cell.
C1_ShortestMoveList ==
    (pc = "done" /\ StructValid(grid)) => Len(moves) = CoverLen(grid)

\* a valid grid with two flags and a teleport pair whose tour takes 3 moves
\* or more was solved
C1_Witness ==
    /\ pc = "done"
    /\ StructValid(grid)
    /\ CountOf(grid, "F") = 2
    /\ \E t \in TeleTokens : CountOf(grid, t) = 2
    /\ Len(moves) >= 3

\* C2: simulating the returned move list from the start never enters a
\* cell out of bounds or blocked, and the cells stood on include every flag.
C2_RoundTrip ==
    (pc = "done" /\ StructValid(grid)) =>
        LET w == Simulate(grid, RefStart(grid), moves)
        IN w.ok /\ FlagCells(grid) \subseteq w.stood

\* a returned list that goes through a teleport: the walk ends on a flag
\* that is no neighbour of the cell it stood on before
C2_Witness ==
    /\ pc = "done"
    /\ StructValid(grid)
    /\ CountOf(grid, "0") >= 1
    /\ Len(moves) >= 2
    /\ Len(moves) < PlainDist(grid, RefStart(grid),
                              Simulate(grid, RefStart(grid), moves).pos)

\* the positions some sequence of moves leads to from those of frontier
RECURSIVE ReachFrom(_, _, _)
ReachFrom(g, seen, frontier) ==
    IF frontier = {} THEN seen
    ELSE ReachFrom(g, seen \cup frontier,
                   (UNION {RefSucc(g, p) : p \in frontier}) \ (seen \cup frontier))

\* some flag cannot be reached from the start
FlagCutOff(g) ==
    ~(FlagCells(g) \subseteq ReachFrom(g, {}, {RefStart(g)}))

\* C3: a grid with a start and well-paired teleports in which some flag
\* cannot be reached from the start fails with UnreachableFlag: no move
\* list is returned and the optimizer has not run.
C3_UnreachableFlag ==
    (HasStart(grid) /\ WellPaired(grid) /\ FlagCutOff(grid)) =>
        /\ pc \in {"start", "keypoints", "partner", "paths", "error"}
        /\ ~tspRan
        /\ moves = <<>>
        /\ pc = "error" => error.kind = "UnreachableFlag"

\* the solve failed on a grid with a teleport pair and a flag that is cut
\* off from the start
C3_Witness ==
    /\ pc = "error"
    /\ error.kind = "UnreachableFlag"
    /\ HasStart(grid)
    /\ \E t \in TeleTokens : CountOf(grid, t) = 2
    /\ WellPaired(grid)
    /\ FlagCutOff(grid)

\* C4: when _pairwise_shortest_paths has returned (pc = "paths"; the matrix
\* is not assigned afterwards), entry (i, j) of its matrix is the least
\* number of moves from key point i to key point j, a move into a teleport
\* cell landing on its partner, or INF when there is none; the recorded
\* moves of a reachable pair are that many and lead from i to j; without
\* teleport cells the partner map is empty and the entries are the plain
\* distances.
C4_PairwiseDistances ==
    pc = "paths" =>
        /\ \A i, j \in 0..(Len(points) - 1) :
              LET a == PointAt(points, i)
                  b == PointAt(points, j)
              IN /\ dist[i][j] = RefDist(grid, a, b)
                 /\ dist[i][j] < INF =>
                       /\ Len(move_paths[<<i, j>>]) = dist[i][j]
                       /\ Simulate(grid, a, move_paths[<<i, j>>]).ok
                       /\ Simulate(grid, a, move_paths[<<i, j>>]).pos = b
        /\ (\A t \in TeleTokens : CountOf(grid, t) = 0) =>
              /\ partner = <<>>
              /\ \A i, j \in 0..(Len(points) - 1) :
                    dist[i][j] = PlainDist(grid, PointAt(points, i), PointAt(points, j))

\* the matrix was built for a grid whose teleport pair shortens the way
\* from the start to a flag
C4_Witness ==
    /\ pc = "paths"
    /\ Len(points) >= 2
    /\ dist[0][1] < PlainDist(grid, PointAt(points, 0), PointAt(points, 1))
    /\ dist[0][1] >= 2

\* C7: on a structurally valid grid whose flags are all within reach of
\* the start (dist[0][i] < INF for every flag i) the solve does not fail:
\* the optimizer finds a tour of finite cost and never raises Infeasible.
C7_NeverInfeasible ==
    (/\ DistReady
     /\ StructValid(grid)
     /\ \A i \in 1..(Len(points) - 1) : dist[0][i] < INF) =>
        /\ pc # "error"
        /\ pc \in {"ordered", "done"} => tsp.ok /\ tsp.cost < INF

\* the optimizer returned a tour for a valid grid with two flags and a
\* teleport pair that brings a flag nearer to the start
C7_Witness ==
    /\ pc = "ordered"
    /\ StructValid(grid)
    /\ CountOf(grid, "F") = 2
    /\ \E f \in FlagCells(grid) :
          RefDist(grid, RefStart(grid), f) < PlainDist(grid, RefStart(grid), f)

\* C9: the errors come in pipeline order.  Without an "S" the solve fails
\* with MissingStart whatever else is wrong; with an "S" and a teleport
\* label marking other than two cells it fails with MalformedTeleport
\* naming such a label; UnreachableFlag is raised only when both checks
\* passed; a failed solve returns no move list.
C9_ErrorOrder ==
    /\ ~HasStart(grid) =>
          /\ pc \in {"start", "error"}
          /\ pc = "error" => error.kind = "MissingStart"
    /\ (HasStart(grid) /\ ~WellPaired(grid)) =>
          /\ pc \in {"start", "keypoints", "error"}
          /\ pc = "error" =>
                /\ error.kind = "MalformedTeleport"
                /\ error.label \in TeleTokens
                /\ CountOf(grid, error.label) \notin {0, 2}
    /\ (pc = "error" /\ error.kind = "UnreachableFlag") =>
          HasStart(grid) /\ WellPaired(grid)
    /\ pc = "error" => moves = <<>>

\* the solve failed with MalformedTeleport on a grid that has a start, a
\* badly paired label and a flag walled in on all sides
C9_Witness ==
    /\ pc = "error"
    /\ error.kind = "MalformedTeleport"
    /\ HasStart(grid)
    /\ \E f \in FlagCells(grid) : \A d \in Deltas : ~CanEnter(grid, Entered(f, d))

\* C10: on a grid with a start, well-paired teleports and no flag the
\* optimizer runs on the 1 x 1 matrix, finds no full-subset state other
\* than index 0, and the solve fails with Infeasible instead of returning
\* an empty move list.
C10_NoFlagInfeasible ==
    (HasStart(grid) /\ WellPaired(grid) /\ FlagCells(grid) = {}) =>
        /\ pc \in {"start", "keypoints", "partner", "paths", "checked", "error"}
        /\ pc = "error" =>
              /\ error.kind = "Infeasible"
              /\ tspRan
              /\ MatN(dist) = 1
              /\ DictKeys(dp[1]) = {0}

\* the solve failed on a flagless grid with a start and a teleport pair
C10_Witness ==
    /\ pc = "error"
    /\ error.kind = "Infeasible"
    /\ FlagCells(grid) = {}
    /\ \E t \in TeleTokens : CountOf(grid, t) = 2

----------------------------------------------------------------------------
(* Properties of _held_karp_tsp (SpecTSP) *)

\* the sequences that list every element of S once
RECURSIVE PermsOf(_)
PermsOf(S) ==
    IF S = {} THEN {<<>>}
    ELSE UNION {{<<x>> \o q : q \in PermsOf(S \ {x})} : x \in S}

\* the visit orders of an n x n matrix: permutations of 0..n-1 from 0
Orders(n) == {<<0>> \o q : q \in PermsOf(1..(n - 1))}

RECURSIVE PathCostFrom(_, _, _)
PathCostFrom(d, o, t) ==
    IF t >= Len(o) THEN 0
    ELSE d[o[t]][o[t + 1]] + PathCostFrom(d, o, t + 1)

\* the sum of the distances between consecutive elements of o
PathCost(d, o) == PathCostFrom(d, o, 1)

\* the visit orders of least cost
MinOrders(d) ==
    LET os == Orders(MatN(d))
        costs == {PathCost(d, o) : o \in os}
        least == CHOOSE c \in costs : \A c2 \in costs : c <= c2
    IN {o \in os : PathCost(d, o) = least}

\* a precedes b, read from the front
LexLeq(a, b) ==
    \/ a = b
    \/ \E i \in 1..Len(a) : a[i] < b[i] /\ \A k \in 1..(i - 1) : a[k] = b[k]

Reversed(a) == [i \in 1..Len(a) |-> a[Len(a) + 1 - i]]

\* C5: a returned order of an n x n matrix, n >= 2, is a permutation of
\* 0..n-1 that begins with 0, and the returned cost is the sum of the
\* distances along it.
C5_OrderIsPermutation ==
    (pc = "ordered" /\ MatN(dist) >= 2) =>
        /\ Len(tsp.order) = MatN(dist)
        /\ {tsp.order[t] : t \in 1..Len(tsp.order)} = 0..(MatN(dist) - 1)
        /\ tsp.order[1] = 0
        /\ tsp.cost = PathCost(dist, tsp.order)

\* an order was returned for a 4 x 4 matrix with unequal distances
C5_Witness ==
    /\ pc = "ordered"
    /\ MatN(dist) = 4
    /\ dist[0][1] # dist[0][2]
    /\ tsp.cost >= 4

\* C6 as stated: of the visit orders of least cost the returned one is the
\* lexicographically smallest.
C6_LexSmallestOrder ==
    pc = "ordered" =>
        LET best == MinOrders(dist)
        IN /\ tsp.order \in best
           /\ \A o \in best : LexLeq(tsp.order, o)

\* C6 amended: of the visit orders of least cost the returned one is the
\* one whose reversal is lexicographically smallest (smallest last index,
\* then smallest index before it, and so on).
C6_ReverseLexSmallestOrder ==
    pc = "ordered" =>
        LET best == MinOrders(dist)
        IN /\ tsp.order \in best
           /\ \A o \in best : LexLeq(Reversed(tsp.order), Reversed(o))

\* an order was returned for a matrix with several orders of least cost
C6_Witness ==
    /\ pc = "ordered"
    /\ MatN(dist) >= 3
    /\ Cardinality(MinOrders(dist)) >= 2

\* the indices stored for a subset: 0 alone for {0}, else its flags
Stored(n, mask) ==
    IF ~HasBit(mask, 0) THEN {}
    ELSE IF mask = 1 THEN {0}
    ELSE {k \in 1..(n - 1) : HasBit(mask, k)}

\* the mask of the first t elements of order o
RECURSIVE PrefixMask(_, _)
PrefixMask(o, t) == IF t = 0 THEN 0 ELSE 2 ^ o[t] + PrefixMask(o, t - 1)

\* C8: after the subset loop every stored state (subset, k) holds the
\* least cost over the stored predecessors j of subset minus {k} and, of
\* the predecessors of that cost, the smallest index; the end state is the
\* full-subset state of least cost with the smallest index; the returned
\* order follows the stored predecessors backward from it.
C8_BackwardTieBreak ==
    (pc \in {"ordered", "error"} /\ tspRan) =>
        LET n == MatN(dist)
            full == 2 ^ n - 1
            cost(mask, k) == DictGet(dp[mask], k)[1]
            prev(mask, k) == DictGet(dp[mask], k)[2]
        IN /\ \A mask \in 0..full : DictKeys(dp[mask]) = Stored(n, mask)
           /\ \A mask \in 2..full : \A k \in Stored(n, mask) :
                 LET from == mask - 2 ^ k
                     j0 == prev(mask, k)
                 IN /\ j0 \in Stored(n, from)
                    /\ cost(mask, k) = cost(from, j0) + dist[j0][k]
                    /\ \A j \in Stored(n, from) :
                          \/ cost(mask, k) < cost(from, j) + dist[j][k]
                          \/ /\ cost(mask, k) = cost(from, j) + dist[j][k]
                             /\ j0 <= j
           /\ pc = "ordered" =>
                 LET o == tsp.order
                     e == o[Len(o)]
                 IN /\ Len(o) = n
                    /\ e \in Stored(n, full) \ {0}
                    /\ tsp.cost = cost(full, e)
                    /\ \A k \in Stored(n, full) \ {0} :
                          \/ cost(full, e) < cost(full, k)
                          \/ cost(full, e) = cost(full, k) /\ e <= k
                    /\ \A t \in 2..n : o[t - 1] = prev(PrefixMask(o, t), o[t])
                    /\ o[1] = 0

\* the loop ran on a 4 x 4 matrix in which a state has two predecessors
\* of equal cost and two end states tie
C8_Witness ==
    /\ pc = "ordered"
    /\ MatN(dist) = 4
    /\ DictGet(dp[13], 2)[1] + dist[2][1] = DictGet(dp[13], 3)[1] + dist[3][1]
    /\ DictGet(dp[15], 1)[1] = DictGet(dp[15], 2)[1]
    /\ tsp.cost = DictGet(dp[15], 1)[1]

====
